---------------------------- MODULE Spec2Model ----------------------------
(***************************************************************************)
(* Agent News Wire: the publisher registry, the subscription registry and  *)
(* the alert registry programs (programs/publisher/src/lib.rs,             *)
(* programs/subscription/src/lib.rs, programs/alerts/src/lib.rs) as state  *)
(* machines: one specification per ledger (SpecPub, SpecSub, SpecAlert),   *)
(* one for a delivery that goes through two of them (SpecFlow) and one for *)
(* registries whose counters have reached the top of their words           *)
(* (SpecLong).                                                             *)
(*                                                                         *)
(* Every instruction is one action.  The host applies an instruction       *)
(* atomically: an instruction that returns an error leaves every account   *)
(* as it was, so a failing call changes only `result`, the record of the   *)
(* last call and its outcome.                                              *)
(*                                                                         *)
(* TLC's integers are 32 bits wide, so the programs' 64-bit words are      *)
(* modelled by words of U64_BITS bits; the 16-bit basis-point fields and   *)
(* the 10000 denominator keep their real values, which keeps every         *)
(* product amount * bps inside TLC's integers.                             *)
(***************************************************************************)
EXTENDS Integers, FiniteSets, Sequences, TLC

(* ------------------------------ bounds -------------------------------- *)
U64_BITS == 14
MaxDistributions == 1
MaxSubmissions == 2
MaxDeposits == 2
MaxWithdrawals == 2
MaxClock == 2
MaxDeliveries == 2
WalletFunds == 1000
VETERAN_ACCEPTED == 50

(* ------------------------- program constants -------------------------- *)
U16_MAX == 65535
BPS_DENOMINATOR == 10000
MAX_NAME_LEN == 64
MAX_URI_LEN == 200
INITIAL_REPUTATION == 500
MAX_REPUTATION == 1000
REPUTATION_REWARD == 10
REPUTATION_PENALTY == 20
MAX_ALERT_ID_LEN == 64
MAX_CHANNEL_LEN == 32
MAX_PRIORITY == 3
MAX_IMPACT_SCORE == 10
MAX_SEED_LEN == 32

U64_MAX == 2^U64_BITS - 1

(* The identities that own publishers and subscribers. *)
Owners == {"o1", "o2"}
(* The owners that act in the single-ledger specifications. *)
Members == {"o1"}
(* The owner whose accounts are old in the long-lived registries. *)
Veterans == {"o2"}
(* The signers of privileged instructions: the configured authority and    *)
(* anybody else.                                                           *)
Signers == {"authority", "other"}

(* --------------------------- input domains ---------------------------- *)
MinStakes == {0, 1000}
ShareBps == {5000, U16_MAX}
NameLens == {MAX_NAME_LEN, MAX_NAME_LEN + 1}
UriLens == {MAX_URI_LEN, MAX_URI_LEN + 1}
RevenueAmounts == {7, U64_MAX}
SlashAmounts == {0, 400, 1000}
ProtocolConfigs ==
    {<<10, 3000>>, <<7, 5000>>, <<10, 20000>>, <<U64_MAX, U16_MAX>>}
DepositAmounts == {0, 100, U64_MAX}
WithdrawAmounts == {100, U64_MAX}
AlertHashes == {"h1", "h2"}
FlowPrices == {7, 10, 9999, U64_MAX}
FlowFeeBps == {3000, 5000}
FlowShareBps == {5000, 7000}
(* The inputs of the long-lived registries. *)
LongSlashAmounts == {1000, U64_MAX}
LongAmounts == {0, 100}
(* Alert ids: a short one and one of 33 bytes. *)
AlertIds == {"a1", "a33"}
(* register_alert arguments <<channel length, content hash, priority,      *)
(* impact score>>: two at the limits, and one past each limit.             *)
AlertArgs ==
    {<<MAX_CHANNEL_LEN, "h1", MAX_PRIORITY, MAX_IMPACT_SCORE>>,
     <<MAX_CHANNEL_LEN, "h2", 0, 0>>,
     <<MAX_CHANNEL_LEN + 1, "h1", MAX_PRIORITY, MAX_IMPACT_SCORE>>,
     <<MAX_CHANNEL_LEN, "h1", MAX_PRIORITY + 1, MAX_IMPACT_SCORE>>,
     <<MAX_CHANNEL_LEN, "h1", MAX_PRIORITY, MAX_IMPACT_SCORE + 1>>}

VARIABLES
    registry,        \* PublisherRegistry singleton
    publisher,       \* Publisher account of each owner
    stake_vault,     \* tokens held by each owner's stake vault
    owner_tokens,    \* tokens held by each owner's own token account
    revenue_pool,    \* tokens held by the registry's revenue pool
    treasury,        \* tokens held by the treasury token account
    slash_history,   \* history: whether slash_publisher has succeeded on the
                     \* owner, and the total it took from the owner's stake
    distributions,   \* history: number of successful distribute_revenue calls
    submissions,     \* history: number of submissions recorded since Init
    config,          \* ProtocolConfig singleton
    subscriber,      \* Subscriber account of each owner
    subscriber_vault,\* tokens held by each owner's subscriber vault
    user_tokens,     \* tokens held by each owner's funding token account
    receipts,        \* the DeliveryReceipt accounts
    clock,           \* Clock::get()?.unix_timestamp
    alert_registry,  \* AlertRegistry singleton
    alert,           \* Alert account of each alert id
    deliveries,      \* the AlertDelivery accounts
    other_alerts,    \* history: number of Alert accounts registered under
                     \* ids outside AlertIds
    account,         \* history: each subscriber's successful deposits,
                     \* withdrawals and charges
    event,           \* the delivery the orchestrator is settling
    result           \* the last instruction and its outcome

pubVars == <<registry, publisher, stake_vault, owner_tokens, revenue_pool,
             treasury, slash_history, distributions, submissions>>
subVars == <<config, subscriber, subscriber_vault, user_tokens, receipts,
             clock, account>>
alertVars == <<alert_registry, alert, deliveries, other_alerts>>

vars == <<registry, publisher, stake_vault, owner_tokens, revenue_pool,
          treasury, slash_history, distributions, submissions, config,
          subscriber, subscriber_vault, user_tokens, receipts, clock, account,
          alert_registry, alert, deliveries, other_alerts, event, result>>

(* ----------------------------- arithmetic ----------------------------- *)
(* `x as u64`: the narrowing cast keeps the low bits. *)
AsU64(x) == x % (U64_MAX + 1)

(* u64::checked_add / checked_sub: -1 stands for None. *)
CheckedAdd(a, b) == IF a + b > U64_MAX THEN -1 ELSE a + b
CheckedSub(a, b) == IF b > a THEN -1 ELSE a - b

(* `x += 1` on a u64.  Below the maximum the result is exact.  At the      *)
(* maximum the build decides: compiled with overflow checks the program    *)
(* panics (-1 here), compiled without them the field wraps to 0.           *)
Increment(x, overflow_checks) ==
    IF x < U64_MAX THEN x + 1
    ELSE IF overflow_checks THEN -1
    ELSE 0

(* The outcome of a handler whose explicit checks gave `err` and whose     *)
(* unchecked increments gave `fields`: a panic aborts the instruction.     *)
OrPanic(err, fields) ==
    IF err # "Ok" THEN err
    ELSE IF -1 \in fields THEN "ProgramFailedToComplete"
    ELSE "Ok"

(* (amount as u128).checked_mul(bps as u128)?.checked_div(10000)? as u64.  *)
(* A u64 times a u16 always fits a u128 and the divisor is not 0, so       *)
(* neither `?` can fail; the cast then keeps the low 64 bits.              *)
BpsShare(amount, bps) == AsU64((amount * bps) \div BPS_DENOMINATOR)

(* A handler that kept what it had written when it returned an error. *)
CommittedPartial(err, after, before) == after

(* The value of an account after an instruction: a handler writes its      *)
(* accounts as it goes and leaves through `?` or `require!` with an Err as *)
(* soon as a step fails; the host then discards every write of the         *)
(* instruction, the tokens moved by its transfers included.                *)
Committed(err, after, before) == IF err = "Ok" THEN after ELSE before

(* SPL token transfer of `amount` out of an account holding `held`. *)
TransferOk(held, amount) == amount <= held

(* The record of the last instruction: the account it was about (who),  *)
(* the identity that signed it, its outcome and the amounts it computed;   *)
(* arg is an argument that is not an amount, returned the value of a view. *)
OutcomeBy(signer, op, who, err, amount, fee, paid) ==
    [op |-> op, who |-> who, signer |-> signer, err |-> err,
     amount |-> amount, fee |-> fee, paid |-> paid,
     arg |-> "none", returned |-> FALSE]

(* An instruction signed by the owner of the account it is about. *)
Outcome(op, who, err, amount, fee, paid) ==
    OutcomeBy(who, op, who, err, amount, fee, paid)

NoPublisher ==
    [exists |-> FALSE, stake |-> 0, reputation_score |-> 0,
     alerts_submitted |-> 0, alerts_accepted |-> 0, total_earnings |-> 0,
     active |-> FALSE, slashed |-> FALSE]

(* ========================= Publisher registry ========================= *)

InitPub ==
    /\ registry = [initialized |-> FALSE, min_stake |-> 0,
                   publisher_share_bps |-> 0, total_publishers |-> 0,
                   total_payouts |-> 0]
    /\ publisher = [o \in Owners |-> NoPublisher]
    /\ stake_vault = [o \in Owners |-> 0]
    /\ owner_tokens = [o \in Owners |-> WalletFunds]
    /\ revenue_pool = U64_MAX
    /\ treasury = 0
    /\ slash_history = [o \in Owners |-> [succeeded |-> FALSE, total |-> 0]]
    /\ distributions = 0
    /\ submissions = 0

(* A registry that has been running for a while: o1 registered under      *)
(* min_stake 1000 and had VETERAN_ACCEPTED submissions accepted, which     *)
(* took its reputation from 500 up to the cap.                             *)
InitPubVeteran ==
    /\ registry = [initialized |-> TRUE, min_stake |-> 1000,
                   publisher_share_bps |-> 5000, total_publishers |-> 1,
                   total_payouts |-> 0]
    /\ publisher = [o \in Owners |->
          IF o = "o1"
          THEN [exists |-> TRUE, stake |-> 1000,
                reputation_score |->
                    IF INITIAL_REPUTATION + REPUTATION_REWARD * VETERAN_ACCEPTED
                           > MAX_REPUTATION
                    THEN MAX_REPUTATION
                    ELSE INITIAL_REPUTATION + REPUTATION_REWARD * VETERAN_ACCEPTED,
                alerts_submitted |-> VETERAN_ACCEPTED,
                alerts_accepted |-> VETERAN_ACCEPTED, total_earnings |-> 0,
                active |-> TRUE, slashed |-> FALSE]
          ELSE NoPublisher]
    /\ stake_vault = [o \in Owners |-> IF o = "o1" THEN 1000 ELSE 0]
    /\ owner_tokens = [o \in Owners |->
          IF o = "o1" THEN WalletFunds - 1000 ELSE WalletFunds]
    /\ revenue_pool = U64_MAX
    /\ treasury = 0
    /\ slash_history = [o \in Owners |-> [succeeded |-> FALSE, total |-> 0]]
    /\ distributions = 0
    /\ submissions = 0

(* initialize: the `init` constraint on the registry account rejects a     *)
(* second call.                                                            *)
InitializeRegistry(min_stake, publisher_share_bps) ==
    IF registry.initialized
    THEN /\ result' = Outcome("initialize", "authority", "AccountAlreadyInUse", 0, 0, 0)
         /\ UNCHANGED pubVars
    ELSE /\ registry' = [initialized |-> TRUE, min_stake |-> min_stake,
                         publisher_share_bps |-> publisher_share_bps,
                         total_publishers |-> 0, total_payouts |-> 0]
         /\ result' = Outcome("initialize", "authority", "Ok", 0, 0, 0)
         /\ UNCHANGED <<publisher, stake_vault, owner_tokens, revenue_pool,
                        treasury, slash_history, distributions, submissions>>

(* `init_if_needed` in place of `init`: an existing account is accepted. *)
PublisherInitIfNeeded(o) == TRUE

(* RegisterPublisher: `init` on the publisher account, whose address is    *)
(* derived from the owner, succeeds only where no account exists yet.      *)
PublisherInitConstraint(o) == ~publisher[o].exists

(* The Publisher record register_publisher writes. *)
(* A registration that records no stake. *)
NewPublisherUnstaked(min_stake) ==
    [exists |-> TRUE, stake |-> 0,
     reputation_score |-> INITIAL_REPUTATION,
     alerts_submitted |-> 0, alerts_accepted |-> 0, total_earnings |-> 0,
     active |-> TRUE, slashed |-> FALSE]

NewPublisher(min_stake) ==
    [exists |-> TRUE, stake |-> min_stake,
     reputation_score |-> INITIAL_REPUTATION,
     alerts_submitted |-> 0, alerts_accepted |-> 0, total_earnings |-> 0,
     active |-> TRUE, slashed |-> FALSE]

RegisterPublisherErr(o, name_len, uri_len) ==
    IF ~registry.initialized THEN "AccountNotInitialized"
    ELSE IF ~PublisherInitConstraint(o) THEN "AccountAlreadyInUse"
    ELSE IF name_len > MAX_NAME_LEN THEN "NameTooLong"
    ELSE IF uri_len > MAX_URI_LEN THEN "UriTooLong"
    ELSE IF ~TransferOk(owner_tokens[o], registry.min_stake) THEN "TokenInsufficientFunds"
    ELSE "Ok"

RegisterPublisher(o, name_len, uri_len) ==
    \E overflow_checks \in BOOLEAN :
    LET total_publishers == Increment(registry.total_publishers, overflow_checks)
        err == OrPanic(RegisterPublisherErr(o, name_len, uri_len),
                       {total_publishers})
    IN
    /\ result' = Outcome("register_publisher", o, err, 0, 0, 0)
    /\ IF err = "Ok"
       THEN /\ owner_tokens' = [owner_tokens EXCEPT ![o] = @ - registry.min_stake]
            /\ stake_vault' = [stake_vault EXCEPT ![o] = @ + registry.min_stake]
            /\ publisher' = [publisher EXCEPT ![o] = NewPublisher(registry.min_stake)]
            /\ registry' = [registry EXCEPT !.total_publishers = total_publishers]
            /\ UNCHANGED <<revenue_pool, treasury, slash_history, distributions,
                           submissions>>
       ELSE UNCHANGED pubVars

(* record_alert_submission: the reputation after an accepted or a rejected *)
(* submission (u16 saturating arithmetic, then the clamp).                 *)
Min(a, b) == IF a < b THEN a ELSE b
Max(a, b) == IF a > b THEN a ELSE b
SaturatingAddU16(a, b) == Min(a + b, U16_MAX)
SaturatingSubU16(a, b) == Max(a - b, 0)

ReputationAfter(score, accepted) ==
    IF accepted
    THEN Min(SaturatingAddU16(score, REPUTATION_REWARD), MAX_REPUTATION)
    ELSE Max(SaturatingSubU16(score, REPUTATION_PENALTY), 0)

RecordAlertSubmissionErr(o) ==
    IF ~publisher[o].exists THEN "AccountNotInitialized" ELSE "Ok"

RecordAlertSubmission(o, accepted) ==
    \E overflow_checks \in BOOLEAN :
    LET alerts_submitted == Increment(publisher[o].alerts_submitted, overflow_checks)
        alerts_accepted ==
            IF accepted
            THEN Increment(publisher[o].alerts_accepted, overflow_checks)
            ELSE publisher[o].alerts_accepted
        err == OrPanic(RecordAlertSubmissionErr(o),
                       {alerts_submitted, alerts_accepted})
    IN
    /\ err = "Ok" => submissions < MaxSubmissions
    /\ result' = [Outcome("record_alert_submission", o, err, 0, 0, 0)
                     EXCEPT !.arg = IF accepted THEN "accepted" ELSE "rejected"]
    /\ IF err = "Ok"
       THEN /\ submissions' = submissions + 1
            /\ publisher' = [publisher EXCEPT
                  ![o].alerts_submitted = alerts_submitted,
                  ![o].alerts_accepted = alerts_accepted,
                  ![o].reputation_score = ReputationAfter(@, accepted)]
            /\ UNCHANGED <<registry, stake_vault, owner_tokens, revenue_pool,
                           treasury, slash_history, distributions>>
       ELSE UNCHANGED pubVars

(* distribute_revenue: the two state checks, in the order of the code. *)
DistributeStateErr(p) ==
    IF ~p.active THEN "PublisherInactive"
    ELSE IF p.slashed THEN "PublisherSlashed"
    ELSE "Ok"

(* A share rounded up instead of down. *)
PublisherAmountCeil(amount, publisher_share_bps) ==
    AsU64((amount * publisher_share_bps + BPS_DENOMINATOR - 1) \div BPS_DENOMINATOR)

(* distribute_revenue: the publisher's share of `amount`. *)
PublisherAmount(amount, publisher_share_bps) ==
    BpsShare(amount, publisher_share_bps)

(* A registry that forgets to count a payout. *)
TotalPayoutsKept(total_payouts, publisher_amount) == total_payouts

(* distribute_revenue: registry.total_payouts after the payout. *)
TotalPayoutsAfter(total_payouts, publisher_amount) ==
    CheckedAdd(total_payouts, publisher_amount)

DistributeRevenueErr(o, amount) ==
    LET publisher_amount == PublisherAmount(amount, registry.publisher_share_bps) IN
    IF ~registry.initialized \/ ~publisher[o].exists THEN "AccountNotInitialized"
    ELSE IF DistributeStateErr(publisher[o]) # "Ok" THEN DistributeStateErr(publisher[o])
    ELSE IF ~TransferOk(revenue_pool, publisher_amount) THEN "TokenInsufficientFunds"
    ELSE IF CheckedAdd(publisher[o].total_earnings, publisher_amount) = -1 THEN "Overflow"
    ELSE IF TotalPayoutsAfter(registry.total_payouts, publisher_amount) = -1
         THEN "Overflow"
    ELSE "Ok"

DistributeRevenue(o, amount) ==
    LET err == DistributeRevenueErr(o, amount)
        publisher_amount == PublisherAmount(amount, registry.publisher_share_bps)
    IN
    /\ err = "Ok" => distributions < MaxDistributions
    /\ revenue_pool' = Committed(err, revenue_pool - publisher_amount, revenue_pool)
    /\ owner_tokens' = Committed(err,
          [owner_tokens EXCEPT ![o] = @ + publisher_amount], owner_tokens)
    /\ publisher' = Committed(err,
          [publisher EXCEPT ![o].total_earnings = CheckedAdd(@, publisher_amount)],
          publisher)
    /\ registry' = Committed(err,
          [registry EXCEPT
              !.total_payouts = TotalPayoutsAfter(@, publisher_amount)],
          registry)
    /\ distributions' = IF err = "Ok" THEN distributions + 1 ELSE distributions
    /\ result' = Outcome("distribute_revenue", o, err, amount, 0,
                         IF err = "Ok" THEN publisher_amount ELSE 0)
    /\ UNCHANGED <<stake_vault, treasury, slash_history, submissions>>

(* A full slash that forgets to deactivate the publisher. *)
ActiveAfterKept(p, stake) == p.active

(* A slash that marks the publisher slashed whatever stake is left. *)
SlashedAfterAny(p, stake) == TRUE

(* slash_publisher: the flags after the stake has been reduced to `stake`. *)
SlashedAfter(p, stake) == IF stake = 0 THEN TRUE ELSE p.slashed
ActiveAfter(p, stake) == IF stake = 0 THEN FALSE ELSE p.active

SlashPublisherErr(o, signer, slash_amount) ==
    IF ~registry.initialized THEN "AccountNotInitialized"
    ELSE IF signer # "authority" THEN "ConstraintHasOne"
    ELSE IF ~publisher[o].exists THEN "AccountNotInitialized"
    ELSE IF ~(slash_amount <= publisher[o].stake) THEN "InsufficientStake"
    ELSE IF CheckedSub(publisher[o].stake, slash_amount) = -1 THEN "Overflow"
    ELSE IF ~TransferOk(stake_vault[o], slash_amount) THEN "TokenInsufficientFunds"
    ELSE "Ok"

SlashPublisher(o, signer, slash_amount) ==
    LET err == SlashPublisherErr(o, signer, slash_amount)
        stake == CheckedSub(publisher[o].stake, slash_amount)
    IN
    /\ result' = OutcomeBy(signer, "slash_publisher", o, err, slash_amount, 0, 0)
    /\ publisher' = Committed(err,
          [publisher EXCEPT
              ![o].stake = stake,
              ![o].reputation_score = 0,
              ![o].slashed = SlashedAfter(publisher[o], stake),
              ![o].active = ActiveAfter(publisher[o], stake)],
          publisher)
    /\ stake_vault' = Committed(err,
          [stake_vault EXCEPT ![o] = @ - slash_amount], stake_vault)
    /\ treasury' = Committed(err, treasury + slash_amount, treasury)
    /\ slash_history' =
          IF err = "Ok"
          THEN [slash_history EXCEPT
                  ![o] = [succeeded |-> TRUE, total |-> @.total + slash_amount]]
          ELSE slash_history
    /\ UNCHANGED <<registry, owner_tokens, revenue_pool, distributions,
                   submissions>>

(* A withdrawal with the slashed check left out. *)
WithdrawStakeUnchecked(p) == TRUE

(* withdraw_stake: the state check that guards the withdrawal. *)
WithdrawStakeAllowed(p) == ~p.slashed

WithdrawStakeErr(o) ==
    IF ~publisher[o].exists THEN "AccountNotInitialized"
    ELSE IF ~WithdrawStakeAllowed(publisher[o]) THEN "PublisherSlashed"
    ELSE IF ~TransferOk(stake_vault[o], publisher[o].stake) THEN "TokenInsufficientFunds"
    ELSE "Ok"

WithdrawStake(o) ==
    LET err == WithdrawStakeErr(o)
        stake_amount == publisher[o].stake
    IN
    /\ result' = Outcome("withdraw_stake", o, err, IF err = "Ok" THEN stake_amount ELSE 0, 0, 0)
    /\ IF err = "Ok"
       THEN /\ publisher' = [publisher EXCEPT ![o].stake = 0, ![o].active = FALSE]
            /\ stake_vault' = [stake_vault EXCEPT ![o] = @ - stake_amount]
            /\ owner_tokens' = [owner_tokens EXCEPT ![o] = @ + stake_amount]
            /\ UNCHANGED <<registry, revenue_pool, treasury, slash_history,
                           distributions, submissions>>
       ELSE UNCHANGED pubVars


(* ======================== Subscription registry ======================= *)

NoSubscriber ==
    [exists |-> FALSE, balance |-> 0, alerts_received |-> 0, active |-> FALSE]

NoAccount ==
    [deposited |-> 0, withdrawn |-> 0, charges |-> 0, deposits |-> 0,
     withdrawals |-> 0]

InitSub ==
    /\ config = [initialized |-> FALSE, price_per_alert |-> 0,
                 treasury_fee_bps |-> 0, total_subscribers |-> 0,
                 total_alerts_delivered |-> 0, total_revenue |-> 0]
    /\ subscriber = [o \in Owners |-> NoSubscriber]
    /\ subscriber_vault = [o \in Owners |-> 0]
    /\ user_tokens = [o \in Owners |-> U64_MAX]
    /\ receipts = {}
    /\ clock = 0
    /\ account = [o \in Owners |-> NoAccount]

(* The clock collaborator: the timestamp never goes back. *)
Tick ==
    /\ clock < MaxClock
    /\ clock' = clock + 1
    /\ result' = Outcome("tick", "none", "Ok", 0, 0, 0)
    /\ UNCHANGED <<config, subscriber, subscriber_vault, user_tokens, receipts,
                   account>>

InitializeConfig(price_per_alert, treasury_fee_bps) ==
    IF config.initialized
    THEN /\ result' = Outcome("initialize", "authority", "AccountAlreadyInUse", 0, 0, 0)
         /\ UNCHANGED subVars
    ELSE /\ config' = [initialized |-> TRUE, price_per_alert |-> price_per_alert,
                       treasury_fee_bps |-> treasury_fee_bps,
                       total_subscribers |-> 0, total_alerts_delivered |-> 0,
                       total_revenue |-> 0]
         /\ result' = Outcome("initialize", "authority", "Ok", 0, 0, 0)
         /\ UNCHANGED <<subscriber, subscriber_vault, user_tokens, receipts,
                        clock, account>>

CreateSubscriberErr(o) ==
    IF ~config.initialized THEN "AccountNotInitialized"
    ELSE IF subscriber[o].exists THEN "AccountAlreadyInUse"
    ELSE "Ok"

CreateSubscriber(o) ==
    \E overflow_checks \in BOOLEAN :
    LET total_subscribers == Increment(config.total_subscribers, overflow_checks)
        err == OrPanic(CreateSubscriberErr(o), {total_subscribers})
    IN
    /\ result' = Outcome("create_subscriber", o, err, 0, 0, 0)
    /\ IF err = "Ok"
       THEN /\ subscriber' = [subscriber EXCEPT ![o] =
                  [exists |-> TRUE, balance |-> 0, alerts_received |-> 0,
                   active |-> TRUE]]
            /\ config' = [config EXCEPT !.total_subscribers = total_subscribers]
            /\ UNCHANGED <<subscriber_vault, user_tokens, receipts, clock, account>>
       ELSE UNCHANGED subVars

(* deposit: require!(amount > 0). *)
DepositAmountValid(amount) == amount > 0

DepositErr(o, amount) ==
    IF ~subscriber[o].exists THEN "AccountNotInitialized"
    ELSE IF ~DepositAmountValid(amount) THEN "InvalidAmount"
    ELSE IF ~TransferOk(user_tokens[o], amount) THEN "TokenInsufficientFunds"
    ELSE IF CheckedAdd(subscriber[o].balance, amount) = -1 THEN "Overflow"
    ELSE "Ok"

Deposit(o, amount) ==
    LET err == DepositErr(o, amount) IN
    /\ err = "Ok" => account[o].deposits < MaxDeposits
    /\ result' = Outcome("deposit", o, err, amount, 0, 0)
    /\ IF err = "Ok"
       THEN /\ user_tokens' = [user_tokens EXCEPT ![o] = @ - amount]
            /\ subscriber_vault' = [subscriber_vault EXCEPT ![o] = @ + amount]
            /\ subscriber' = [subscriber EXCEPT
                  ![o].balance = CheckedAdd(@, amount)]
            /\ account' = [account EXCEPT ![o].deposited = @ + amount,
                                          ![o].deposits = @ + 1]
            /\ UNCHANGED <<config, receipts, clock>>
       ELSE UNCHANGED subVars

(* A withdrawal that must leave something behind. *)
WithdrawAllowedStrict(balance, amount) == balance > amount

(* withdraw: require!(subscriber.balance >= amount). *)
WithdrawAllowed(balance, amount) == balance >= amount

WithdrawErr(o, amount) ==
    IF ~subscriber[o].exists THEN "AccountNotInitialized"
    ELSE IF ~WithdrawAllowed(subscriber[o].balance, amount) THEN "InsufficientBalance"
    ELSE IF ~TransferOk(subscriber_vault[o], amount) THEN "TokenInsufficientFunds"
    ELSE IF CheckedSub(subscriber[o].balance, amount) = -1 THEN "Overflow"
    ELSE "Ok"

Withdraw(o, amount) ==
    LET err == WithdrawErr(o, amount) IN
    /\ err = "Ok" => account[o].withdrawals < MaxWithdrawals
    /\ result' = Outcome("withdraw", o, err, amount, 0, 0)
    /\ IF err = "Ok"
       THEN /\ subscriber_vault' = [subscriber_vault EXCEPT ![o] = @ - amount]
            /\ user_tokens' = [user_tokens EXCEPT ![o] = @ + amount]
            /\ subscriber' = [subscriber EXCEPT
                  ![o].balance = CheckedSub(@, amount)]
            /\ account' = [account EXCEPT ![o].withdrawn = @ + amount,
                                          ![o].withdrawals = @ + 1]
            /\ UNCHANGED <<config, receipts, clock>>
       ELSE UNCHANGED subVars

(* A receipt account that is created again when it exists. *)
ReceiptInitIfNeeded(o) == TRUE

(* ChargeForAlert: `init` on the receipt account, whose address is derived *)
(* from the subscriber and the current timestamp.                          *)
ReceiptInitConstraint(o) ==
    ~\E r \in receipts : r.subscriber = o /\ r.timestamp = clock

(* A charge guarded only against an empty balance. *)
ChargeAllowedNonEmpty(balance, price_per_alert) == balance > 0

(* charge_for_alert: require!(subscriber.balance >= config.price_per_alert) *)
ChargeAllowed(balance, price_per_alert) == balance >= price_per_alert

(* charge_for_alert: the treasury's fee on total_amount. *)
TreasuryFee(total_amount, treasury_fee_bps) ==
    BpsShare(total_amount, treasury_fee_bps)

(* A charge that deducts nothing. *)
BalanceAfterChargeFree(balance, total_amount) == balance

(* charge_for_alert: the balance after the deduction. *)
BalanceAfterCharge(balance, total_amount) == CheckedSub(balance, total_amount)

ChargeForAlertErr(o, overflow_checks) ==
    LET total_amount == config.price_per_alert
        treasury_fee == TreasuryFee(total_amount, config.treasury_fee_bps)
    IN
    IF ~config.initialized \/ ~subscriber[o].exists THEN "AccountNotInitialized"
    ELSE IF ~ReceiptInitConstraint(o) THEN "AccountAlreadyInUse"
    ELSE IF ~subscriber[o].active THEN "SubscriberInactive"
    ELSE IF ~ChargeAllowed(subscriber[o].balance, total_amount) THEN "InsufficientBalance"
    ELSE IF CheckedSub(total_amount, treasury_fee) = -1 THEN "Overflow"
    ELSE IF BalanceAfterCharge(subscriber[o].balance, total_amount) = -1 THEN "Overflow"
    ELSE IF Increment(subscriber[o].alerts_received, overflow_checks) = -1
         THEN "ProgramFailedToComplete"
    ELSE IF Increment(config.total_alerts_delivered, overflow_checks) = -1
         THEN "ProgramFailedToComplete"
    ELSE IF CheckedAdd(config.total_revenue, total_amount) = -1 THEN "Overflow"
    ELSE "Ok"

ChargeForAlert(o, distributor, alert_hash) ==
    \E overflow_checks \in BOOLEAN :
    LET err == ChargeForAlertErr(o, overflow_checks)
        total_amount == config.price_per_alert
        treasury_fee == TreasuryFee(total_amount, config.treasury_fee_bps)
        publisher_amount == CheckedSub(total_amount, treasury_fee)
    IN
    /\ subscriber' = Committed(err,
          [subscriber EXCEPT
              ![o].balance = BalanceAfterCharge(@, total_amount),
              ![o].alerts_received = Increment(@, overflow_checks)],
          subscriber)
    /\ receipts' = Committed(err,
          receipts \cup
              {[subscriber |-> o, timestamp |-> clock,
                alert_hash |-> alert_hash, amount_charged |-> total_amount]},
          receipts)
    /\ config' = Committed(err,
          [config EXCEPT
              !.total_alerts_delivered = Increment(@, overflow_checks),
              !.total_revenue = CheckedAdd(@, total_amount)],
          config)
    /\ account' = IF err = "Ok"
                  THEN [account EXCEPT ![o].charges = @ + 1]
                  ELSE account
    /\ result' = [OutcomeBy(distributor, "charge_for_alert", o, err, total_amount,
                            IF err = "Ok" THEN treasury_fee ELSE 0,
                            IF err = "Ok" THEN publisher_amount ELSE 0)
                     EXCEPT !.arg = alert_hash]
    /\ UNCHANGED <<subscriber_vault, user_tokens, clock>>

SetActive(o, op, flag) ==
    IF ~subscriber[o].exists
    THEN /\ result' = Outcome(op, o, "AccountNotInitialized", 0, 0, 0)
         /\ UNCHANGED subVars
    ELSE /\ subscriber' = [subscriber EXCEPT ![o].active = flag]
         /\ result' = Outcome(op, o, "Ok", 0, 0, 0)
         /\ UNCHANGED <<config, subscriber_vault, user_tokens, receipts, clock,
                        account>>

Deactivate(o) == SetActive(o, "deactivate", FALSE)
Reactivate(o) == SetActive(o, "reactivate", TRUE)

(* ============================ Alert registry =========================== *)

NoAlert ==
    [exists |-> FALSE, content_hash |-> "none", publisher |-> "none",
     timestamp |-> 0, priority |-> 0, impact_score |-> 0, delivery_count |-> 0]

InitAlert ==
    /\ alert_registry = [initialized |-> FALSE, total_alerts |-> 0]
    /\ alert = [id \in AlertIds |-> NoAlert]
    /\ deliveries = {}
    /\ other_alerts = 0

(* The length of alert_id in bytes. *)
AlertIdLen(alert_id) == IF alert_id = "a33" THEN MAX_SEED_LEN + 1 ELSE 2

(* initialize: the `init` constraint on the registry account rejects a     *)
(* second call.                                                            *)
InitializeAlerts ==
    IF alert_registry.initialized
    THEN /\ result' = Outcome("initialize", "authority", "AccountAlreadyInUse", 0, 0, 0)
         /\ UNCHANGED alertVars
    ELSE /\ alert_registry' = [initialized |-> TRUE, total_alerts |-> 0]
         /\ result' = Outcome("initialize", "authority", "Ok", 0, 0, 0)
         /\ UNCHANGED <<alert, deliveries, other_alerts>>

(* RegisterAlert: `init` on the alert account, whose address is derived    *)
(* from alert_id, succeeds only where no account exists yet.               *)
AlertInitConstraint(alert_id) == ~alert[alert_id].exists

(* register_alert: the account constraints first (the address derivation   *)
(* panics on a seed longer than the host allows), then the handler's       *)
(* checks in the order of the code.                                        *)
RegisterAlertErr(alert_id, channel_len, priority, impact_score) ==
    IF ~alert_registry.initialized THEN "AccountNotInitialized"
    ELSE IF AlertIdLen(alert_id) > MAX_SEED_LEN THEN "ProgramFailedToComplete"
    ELSE IF ~AlertInitConstraint(alert_id) THEN "AccountAlreadyInUse"
    ELSE IF AlertIdLen(alert_id) > MAX_ALERT_ID_LEN THEN "AlertIdTooLong"
    ELSE IF channel_len > MAX_CHANNEL_LEN THEN "ChannelNameTooLong"
    ELSE IF priority > MAX_PRIORITY THEN "InvalidPriority"
    ELSE IF impact_score > MAX_IMPACT_SCORE THEN "InvalidImpactScore"
    ELSE "Ok"

RegisterAlert(alert_id, channel_len, content_hash, publisher_key, priority, impact_score) ==
    \E overflow_checks \in BOOLEAN :
    LET total_alerts == Increment(alert_registry.total_alerts, overflow_checks)
        err == OrPanic(RegisterAlertErr(alert_id, channel_len, priority,
                                        impact_score),
                       {total_alerts})
    IN
    /\ result' = OutcomeBy(publisher_key, "register_alert", alert_id, err, 0, 0, 0)
    /\ IF err = "Ok"
       THEN /\ alert' = [alert EXCEPT ![alert_id] =
                  [exists |-> TRUE, content_hash |-> content_hash,
                   publisher |-> publisher_key, timestamp |-> clock,
                   priority |-> priority, impact_score |-> impact_score,
                   delivery_count |-> 0]]
            /\ alert_registry' = [alert_registry EXCEPT !.total_alerts = total_alerts]
            /\ UNCHANGED <<deliveries, other_alerts>>
       ELSE UNCHANGED alertVars

(* RecordDelivery: `init` on the delivery account, whose address is        *)
(* derived from the alert and the current timestamp.                       *)
DeliveryInitConstraint(alert_id) ==
    ~\E d \in deliveries : d.alert = alert_id /\ d.timestamp = clock

RecordDeliveryErr(alert_id) ==
    IF ~alert[alert_id].exists THEN "AccountNotInitialized"
    ELSE IF ~DeliveryInitConstraint(alert_id) THEN "AccountAlreadyInUse"
    ELSE "Ok"

RecordDelivery(alert_id, subscriber_key, distributor) ==
    \E overflow_checks \in BOOLEAN :
    LET delivery_count == Increment(alert[alert_id].delivery_count, overflow_checks)
        err == OrPanic(RecordDeliveryErr(alert_id), {delivery_count})
    IN
    /\ err = "Ok" => Cardinality(deliveries) < MaxDeliveries
    /\ result' = [OutcomeBy(distributor, "record_delivery", alert_id, err, 0, 0, 0)
                     EXCEPT !.arg = subscriber_key]
    /\ IF err = "Ok"
       THEN /\ alert' = [alert EXCEPT ![alert_id].delivery_count = delivery_count]
            /\ deliveries' = deliveries \cup
                  {[alert |-> alert_id, subscriber |-> subscriber_key,
                    timestamp |-> clock]}
            /\ UNCHANGED <<alert_registry, other_alerts>>
       ELSE UNCHANGED alertVars

(* A verification that answers yes whatever hash is expected. *)
VerifyMatchesAny(content_hash, expected_hash) == TRUE

(* verify_alert: whether the stored hash is the expected one. *)
VerifyMatches(content_hash, expected_hash) == content_hash = expected_hash

VerifyAlert(alert_id, expected_hash) ==
    /\ result' =
          IF ~alert[alert_id].exists
          THEN [Outcome("verify_alert", alert_id, "AccountNotInitialized", 0, 0, 0)
                   EXCEPT !.arg = expected_hash]
          ELSE [Outcome("verify_alert", alert_id, "Ok", 0, 0, 0)
                   EXCEPT !.arg = expected_hash,
                          !.returned = VerifyMatches(alert[alert_id].content_hash,
                                                     expected_hash)]
    /\ UNCHANGED alertVars

(* ============================ Orchestrator ============================ *)
(* The external distribution process: it charges the subscriber for a      *)
(* delivery and then passes the amount charged to distribute_revenue.      *)

NoEvent ==
    [phase |-> "idle", total_charged |-> 0, treasury_fee |-> 0,
     publisher_paid |-> 0]

DeliverCharge(o, alert_hash) ==
    /\ event.phase \in {"idle", "settled"}
    /\ ChargeForAlert(o, "authority", alert_hash)
    /\ event' = IF result'.err = "Ok"
                THEN [phase |-> "charged", total_charged |-> result'.amount,
                      treasury_fee |-> result'.fee, publisher_paid |-> 0]
                ELSE event

DeliverDistribute(o) ==
    /\ event.phase = "charged"
    /\ DistributeRevenue(o, event.total_charged)
    /\ event' = IF result'.err = "Ok"
                THEN [event EXCEPT !.phase = "settled",
                                   !.publisher_paid = result'.paid]
                ELSE event

(* =========================== Specifications =========================== *)

NoResult == Outcome("none", "none", "Ok", 0, 0, 0)

(* The publisher registry alone. *)
InitPubLedger ==
    /\ InitPub \/ InitPubVeteran
    /\ InitSub
    /\ InitAlert
    /\ event = NoEvent
    /\ result = NoResult

NextPub ==
    \/ \E m \in MinStakes, b \in ShareBps :
          InitializeRegistry(m, b) /\ UNCHANGED <<subVars, alertVars, event>>
    \/ \E o \in Members, n \in NameLens, u \in UriLens :
          RegisterPublisher(o, n, u) /\ UNCHANGED <<subVars, alertVars, event>>
    \/ \E o \in Members, accepted \in BOOLEAN :
          RecordAlertSubmission(o, accepted) /\ UNCHANGED <<subVars, alertVars, event>>
    \/ \E o \in Members, a \in RevenueAmounts :
          DistributeRevenue(o, a) /\ UNCHANGED <<subVars, alertVars, event>>
    \/ \E o \in Members, s \in Signers, a \in SlashAmounts :
          SlashPublisher(o, s, a) /\ UNCHANGED <<subVars, alertVars, event>>
    \/ \E o \in Members :
          WithdrawStake(o) /\ UNCHANGED <<subVars, alertVars, event>>

SpecPub == InitPubLedger /\ [][NextPub]_vars

(* The subscription registry alone. *)
InitSubLedger ==
    /\ InitPub
    /\ InitSub
    /\ InitAlert
    /\ event = NoEvent
    /\ result = NoResult

NextSub ==
    \/ \E c \in ProtocolConfigs :
          InitializeConfig(c[1], c[2]) /\ UNCHANGED <<pubVars, alertVars, event>>
    \/ \E o \in Members :
          CreateSubscriber(o) /\ UNCHANGED <<pubVars, alertVars, event>>
    \/ \E o \in Members, a \in DepositAmounts :
          Deposit(o, a) /\ UNCHANGED <<pubVars, alertVars, event>>
    \/ \E o \in Members, a \in WithdrawAmounts :
          Withdraw(o, a) /\ UNCHANGED <<pubVars, alertVars, event>>
    \/ \E o \in Members, d \in Signers, h \in AlertHashes :
          ChargeForAlert(o, d, h) /\ UNCHANGED <<pubVars, alertVars, event>>
    \/ \E o \in Members :
          Deactivate(o) /\ UNCHANGED <<pubVars, alertVars, event>>
    \/ \E o \in Members :
          Reactivate(o) /\ UNCHANGED <<pubVars, alertVars, event>>
    \/ Tick /\ UNCHANGED <<pubVars, alertVars, event>>

SpecSub == InitSubLedger /\ [][NextSub]_vars

(* A delivery through both ledgers. *)
NextFlow ==
    \/ \E p \in FlowPrices, b \in FlowFeeBps :
          InitializeConfig(p, b) /\ UNCHANGED <<pubVars, alertVars, event>>
    \/ \E o \in Members :
          CreateSubscriber(o) /\ UNCHANGED <<pubVars, alertVars, event>>
    \/ \E o \in Members, a \in DepositAmounts :
          Deposit(o, a) /\ UNCHANGED <<pubVars, alertVars, event>>
    \/ Tick /\ UNCHANGED <<pubVars, alertVars, event>>
    \/ \E b \in FlowShareBps :
          InitializeRegistry(1000, b) /\ UNCHANGED <<subVars, alertVars, event>>
    \/ \E o \in Members :
          RegisterPublisher(o, MAX_NAME_LEN, MAX_URI_LEN)
          /\ UNCHANGED <<subVars, alertVars, event>>
    \/ \E o \in Members, h \in AlertHashes :
          DeliverCharge(o, h) /\ UNCHANGED <<pubVars, alertVars>>
    \/ \E o \in Members :
          DeliverDistribute(o) /\ UNCHANGED <<subVars, alertVars>>

SpecFlow == InitSubLedger /\ [][NextFlow]_vars

(* The alert registry alone. *)
NextAlert ==
    \/ InitializeAlerts /\ UNCHANGED <<pubVars, subVars, event>>
    \/ \E id \in AlertIds, a \in AlertArgs, k \in Members :
          RegisterAlert(id, a[1], a[2], k, a[3], a[4])
          /\ UNCHANGED <<pubVars, subVars, event>>
    \/ \E id \in AlertIds, k \in Owners, d \in Signers :
          RecordDelivery(id, k, d) /\ UNCHANGED <<pubVars, subVars, event>>
    \/ \E id \in AlertIds, h \in AlertHashes :
          VerifyAlert(id, h) /\ UNCHANGED <<pubVars, subVars, event>>
    \/ Tick /\ UNCHANGED <<pubVars, alertVars, event>>

SpecAlert == InitSubLedger /\ [][NextAlert]_vars

(* The three registries after a long life.  Counters that nothing but     *)
(* time keeps from their maximum are there: o2 has had U64_MAX submissions *)
(* recorded and has been paid U64_MAX - 3 over the years out of a revenue  *)
(* pool that is refilled from outside, U64_MAX publishers, subscribers and *)
(* alerts have been registered, and, alerts being free of charge           *)
(* (price_per_alert = 0), U64_MAX alerts have been delivered, all of them  *)
(* to o2, whose receipts of earlier timestamps are counted in its history. *)
InitPubLong ==
    /\ registry = [initialized |-> TRUE, min_stake |-> 1000,
                   publisher_share_bps |-> 5000, total_publishers |-> U64_MAX,
                   total_payouts |-> U64_MAX - 3]
    /\ publisher = [o \in Owners |->
          IF o = "o2"
          THEN [exists |-> TRUE, stake |-> 1000,
                reputation_score |-> MAX_REPUTATION,
                alerts_submitted |-> U64_MAX,
                alerts_accepted |-> U64_MAX - 1,
                total_earnings |-> U64_MAX - 3,
                active |-> TRUE, slashed |-> FALSE]
          ELSE NoPublisher]
    /\ stake_vault = [o \in Owners |-> IF o = "o2" THEN 1000 ELSE 0]
    /\ owner_tokens = [o \in Owners |-> WalletFunds]
    /\ revenue_pool = U64_MAX
    /\ treasury = 0
    /\ slash_history = [o \in Owners |-> [succeeded |-> FALSE, total |-> 0]]
    /\ distributions = 0
    /\ submissions = 0

InitSubLong ==
    /\ config = [initialized |-> TRUE, price_per_alert |-> 0,
                 treasury_fee_bps |-> 3000, total_subscribers |-> U64_MAX,
                 total_alerts_delivered |-> U64_MAX, total_revenue |-> 0]
    /\ subscriber = [o \in Owners |->
          IF o = "o2"
          THEN [exists |-> TRUE, balance |-> 0, alerts_received |-> U64_MAX,
                active |-> TRUE]
          ELSE NoSubscriber]
    /\ subscriber_vault = [o \in Owners |-> 0]
    /\ user_tokens = [o \in Owners |-> U64_MAX]
    /\ receipts = {}
    /\ clock = 0
    /\ account = [o \in Owners |->
          IF o = "o2" THEN [NoAccount EXCEPT !.charges = U64_MAX]
          ELSE NoAccount]

InitAlertLong ==
    /\ alert_registry = [initialized |-> TRUE, total_alerts |-> U64_MAX]
    /\ alert = [id \in AlertIds |-> NoAlert]
    /\ deliveries = {}
    /\ other_alerts = U64_MAX

(* One registry has had a long life; nobody has initialized the other two. *)
InitLong ==
    /\ \/ InitPubLong /\ InitSub /\ InitAlert
       \/ InitPub /\ InitSubLong /\ InitAlert
       \/ InitPub /\ InitSub /\ InitAlertLong
    /\ event = NoEvent
    /\ result = NoResult

NextLong ==
    \/ \E o \in Owners :
          RegisterPublisher(o, MAX_NAME_LEN, MAX_URI_LEN)
          /\ UNCHANGED <<subVars, alertVars, event>>
    \/ \E o \in Veterans, accepted \in BOOLEAN :
          RecordAlertSubmission(o, accepted)
          /\ UNCHANGED <<subVars, alertVars, event>>
    \/ \E o \in Veterans, a \in RevenueAmounts :
          DistributeRevenue(o, a) /\ UNCHANGED <<subVars, alertVars, event>>
    \/ \E o \in Veterans, a \in LongSlashAmounts :
          SlashPublisher(o, "authority", a)
          /\ UNCHANGED <<subVars, alertVars, event>>
    \/ \E o \in Veterans :
          WithdrawStake(o) /\ UNCHANGED <<subVars, alertVars, event>>
    \/ \E o \in Owners :
          CreateSubscriber(o) /\ UNCHANGED <<pubVars, alertVars, event>>
    \/ \E o \in Veterans, a \in LongAmounts :
          Deposit(o, a) /\ UNCHANGED <<pubVars, alertVars, event>>
    \/ \E o \in Veterans, a \in LongAmounts :
          Withdraw(o, a) /\ UNCHANGED <<pubVars, alertVars, event>>
    \/ \E o \in Veterans :
          ChargeForAlert(o, "authority", "h1")
          /\ UNCHANGED <<pubVars, alertVars, event>>
    \/ \E o \in Veterans :
          Deactivate(o) /\ UNCHANGED <<pubVars, alertVars, event>>
    \/ \E o \in Veterans :
          Reactivate(o) /\ UNCHANGED <<pubVars, alertVars, event>>
    \/ Tick /\ UNCHANGED <<pubVars, alertVars, event>>
    \/ \E id \in AlertIds, a \in AlertArgs, k \in Members :
          RegisterAlert(id, a[1], a[2], k, a[3], a[4])
          /\ UNCHANGED <<pubVars, subVars, event>>
    \/ \E id \in AlertIds, k \in Veterans :
          RecordDelivery(id, k, "authority")
          /\ UNCHANGED <<pubVars, subVars, event>>
    \/ \E id \in AlertIds :
          VerifyAlert(id, "h1") /\ UNCHANGED <<pubVars, subVars, event>>

SpecLong == InitLong /\ [][NextLong]_vars

(* ============================== Claims ================================ *)

(* The mathematical value floor(amount * bps / 10000). *)
FloorShare(amount, bps) == (amount * bps) \div BPS_DENOMINATOR

Complementary ==
    config.treasury_fee_bps + registry.publisher_share_bps = BPS_DENOMINATOR

(* What the history says the balance of o must be. *)
BalanceByHistory(o) ==
    account[o].deposited - account[o].withdrawn
        - config.price_per_alert * account[o].charges

(* The last call failed, so the accounts are as the call found them. *)
Failed(op) == result.op = op /\ result.err # "Ok"

C3_ChargeEffect ==
    [][(result'.op = "charge_for_alert" /\ result'.err = "Ok") =>
          LET o == result'.who
              price == config.price_per_alert
          IN
          /\ result'.fee = FloorShare(price, config.treasury_fee_bps)
          /\ result'.paid = price - result'.fee
          /\ result'.fee + result'.paid = price
          /\ subscriber'[o].balance = subscriber[o].balance - price
          /\ subscriber'[o].alerts_received = subscriber[o].alerts_received + 1
          /\ Cardinality(receipts') = Cardinality(receipts) + 1
          /\ \A r \in receipts' \ receipts :
                r.subscriber = o /\ r.amount_charged = price
      ]_vars

(* C4: every successful distribute_revenue(amount) pays the publisher      *)
(* exactly floor(amount * publisher_share_bps / 10000), adds that to       *)
(* total_earnings and total_payouts, and never pays more than amount.      *)
C4_PublisherShare ==
    [][(result'.op = "distribute_revenue" /\ result'.err = "Ok") =>
          LET o == result'.who
              share == FloorShare(result'.amount, registry.publisher_share_bps)
          IN
          /\ result'.paid = share
          /\ result'.paid <= result'.amount
          /\ owner_tokens'[o] = owner_tokens[o] + share
          /\ revenue_pool' = revenue_pool - share
          /\ publisher'[o].total_earnings = publisher[o].total_earnings + share
          /\ registry'.total_payouts = registry.total_payouts + share
      ]_vars

(* C5: a distribute_revenue whose share does not fit the 64-bit word fails *)
(* with Overflow and changes nothing.                                      *)
C5_CastOverflow ==
    [][(/\ result'.op = "distribute_revenue"
        /\ registry.initialized
        /\ publisher[result'.who].exists
        /\ publisher[result'.who].active
        /\ FloorShare(result'.amount, registry.publisher_share_bps) > U64_MAX)
          => (result'.err = "Overflow" /\ UNCHANGED pubVars)
      ]_vars

(* C6: withdraw_stake on a publisher whose stake slash_publisher has       *)
(* reduced, be it to 0 or to a stake still greater than 0, fails with      *)
(* PublisherSlashed and leaves stake and vault alone.                      *)
C6_SlashedForfeits ==
    [][(result'.op = "withdraw_stake" /\ slash_history[result'.who].total > 0) =>
          /\ result'.err = "PublisherSlashed"
          /\ UNCHANGED <<publisher, stake_vault>>
      ]_vars

(* C7: distribute_revenue on a publisher whose slashed flag is set reports *)
(* PublisherSlashed, on any other inactive publisher PublisherInactive,    *)
(* and changes nothing in both cases.                                      *)
C7_DistributeErrors ==
    [][(/\ result'.op = "distribute_revenue"
        /\ registry.initialized
        /\ publisher[result'.who].exists) =>
          LET p == publisher[result'.who] IN
          /\ p.slashed => (result'.err = "PublisherSlashed" /\ UNCHANGED pubVars)
          /\ (~p.active /\ ~p.slashed) =>
                (result'.err = "PublisherInactive" /\ UNCHANGED pubVars)
      ]_vars

(* C8: for every publisher, slashed implies not active; a stake of 0 left  *)
(* by a slash or by withdraw_stake implies not active; the reputation is   *)
(* within [0, 1000].                                                       *)
C8_PublisherInvariants ==
    \A o \in Owners :
        publisher[o].exists =>
            /\ publisher[o].slashed => ~publisher[o].active
            /\ (/\ publisher[o].stake = 0
                /\ \/ slash_history[o].succeeded
                   \/ registry.min_stake > 0
                   \/ result = Outcome("withdraw_stake", o, "Ok", 0, 0, 0))
                  => ~publisher[o].active
            /\ publisher[o].reputation_score \in 0..MAX_REPUTATION

(* C8 witness: a publisher that had a submission accepted at the cap of    *)
(* the reputation and was then slashed to a stake of 0.                    *)
C8_Witness ==
    \E o \in Owners :
        /\ publisher[o].alerts_accepted > VETERAN_ACCEPTED
        /\ publisher[o].slashed
        /\ publisher[o].stake = 0
        /\ result.op = "slash_publisher" /\ result.err = "Ok"

(* C9: a slash that takes the stake to 0 leaves reputation 0, active false *)
(* and slashed true; the slashed flag is never cleared; and every          *)
(* withdraw_stake on a slashed publisher fails with PublisherSlashed.      *)
C9_FullSlash ==
    [][\A o \in Owners :
          /\ (/\ result'.op = "slash_publisher" /\ result'.who = o
              /\ result'.err = "Ok"
              /\ publisher'[o].stake = 0) =>
                 /\ publisher[o].stake = result'.amount
                 /\ publisher'[o].reputation_score = 0
                 /\ ~publisher'[o].active
                 /\ publisher'[o].slashed
          /\ publisher[o].slashed => publisher'[o].slashed
          /\ (/\ publisher[o].slashed
              /\ result'.op = "withdraw_stake"
              /\ result'.who = o) =>
                 (result'.err = "PublisherSlashed" /\ UNCHANGED pubVars)
      ]_vars

(* C9 witness: the publisher registered with 1000 and slashed by 1000 has  *)
(* just been refused a withdrawal.                                         *)
C9_Witness ==
    \E o \in Owners :
        /\ registry.min_stake = 1000
        /\ treasury = 1000
        /\ publisher[o].stake = 0
        /\ publisher[o].slashed
        /\ result = Outcome("withdraw_stake", o, "PublisherSlashed", 0, 0, 0)

(* A publisher slashed to a stake of 0, or whose stake was withdrawn. *)
Terminal(o) ==
    publisher[o].exists /\ publisher[o].stake = 0 /\ ~publisher[o].active

(* C10: no operation takes a publisher out of a terminal state: it stays   *)
(* inactive with a stake of 0.                                             *)
C10_TerminalStays ==
    [][\A o \in Owners : Terminal(o) => Terminal(o)']_vars

(* C10 witness: a terminal publisher whose owner has just tried to         *)
(* register again.                                                         *)
C10_Witness ==
    \E o \in Owners :
        /\ Terminal(o)
        /\ result = Outcome("register_publisher", o, "AccountAlreadyInUse", 0, 0, 0)

(* C11: slash_publisher fails with InsufficientStake when slash_amount is  *)
(* above the stake and fails for every signer but the registry's           *)
(* authority, changing nothing; otherwise it takes slash_amount from the   *)
(* stake, sets the reputation to 0, sets slashed and clears active exactly *)
(* when the stake left is 0 and leaves both flags alone otherwise, and     *)
(* moves exactly slash_amount from the stake vault to the treasury.        *)
C11_SlashEffect ==
    [][(/\ result'.op = "slash_publisher"
        /\ registry.initialized
        /\ publisher[result'.who].exists) =>
          LET o == result'.who
              slash_amount == result'.amount
              p == publisher[o]
              q == publisher'[o]
          IN
          /\ result'.signer # "authority" =>
                (result'.err # "Ok" /\ UNCHANGED pubVars)
          /\ (result'.signer = "authority" /\ slash_amount > p.stake) =>
                (result'.err = "InsufficientStake" /\ UNCHANGED pubVars)
          /\ (result'.signer = "authority" /\ slash_amount <= p.stake) =>
                /\ result'.err = "Ok"
                /\ q.stake = p.stake - slash_amount
                /\ q.reputation_score = 0
                /\ q.slashed = (IF q.stake = 0 THEN TRUE ELSE p.slashed)
                /\ q.active = (IF q.stake = 0 THEN FALSE ELSE p.active)
                /\ q = [p EXCEPT !.stake = q.stake, !.reputation_score = 0,
                                 !.slashed = q.slashed, !.active = q.active]
                /\ stake_vault'[o] = stake_vault[o] - slash_amount
                /\ treasury' = treasury + slash_amount
                /\ UNCHANGED <<registry, owner_tokens, revenue_pool>>
      ]_vars

(* C11 witness: the authority has slashed part of the stake of a publisher *)
(* at the top of the reputation scale, which is still active and not       *)
(* marked slashed.                                                         *)
C11_Witness ==
    \E o \in Owners :
        /\ result.op = "slash_publisher" /\ result.who = o
        /\ result.signer = "authority" /\ result.err = "Ok"
        /\ result.amount > 0
        /\ publisher[o].stake > 0
        /\ publisher[o].reputation_score = 0
        /\ publisher[o].alerts_accepted >= VETERAN_ACCEPTED
        /\ publisher[o].active /\ ~publisher[o].slashed
        /\ treasury = result.amount

(* C12: every record_alert_submission on a publisher adds one to           *)
(* alerts_submitted; accepted, it adds one to alerts_accepted and raises   *)
(* the reputation by 10 up to 1000 at most; rejected, it lowers the        *)
(* reputation by 20 down to 0 at least; so the reputation stays within     *)
(* [0, 1000], at 0 under rejections and at 1000 under acceptances.         *)
C12_Reputation ==
    [][(/\ result'.op = "record_alert_submission"
        /\ publisher[result'.who].exists) =>
          LET p == publisher[result'.who]
              q == publisher'[result'.who]
          IN
          /\ result'.err = "Ok"
          /\ q.alerts_submitted = p.alerts_submitted + 1
          /\ result'.arg = "accepted" =>
                /\ q.alerts_accepted = p.alerts_accepted + 1
                /\ q.reputation_score =
                      Min(p.reputation_score + REPUTATION_REWARD, MAX_REPUTATION)
          /\ result'.arg = "rejected" =>
                /\ q.alerts_accepted = p.alerts_accepted
                /\ q.reputation_score =
                      Max(p.reputation_score - REPUTATION_PENALTY, 0)
          /\ q.reputation_score \in 0..MAX_REPUTATION
          /\ (p.reputation_score = 0 /\ result'.arg = "rejected")
                => q.reputation_score = 0
          /\ (p.reputation_score = MAX_REPUTATION /\ result'.arg = "accepted")
                => q.reputation_score = MAX_REPUTATION
      ]_vars

ExactCount(before, after) == after = before \/ after = before + 1

(* C14: no counter and no amount ever wraps: every step leaves each        *)
(* counter as it was or exactly one higher, every amount within the word,  *)
(* and an instruction that finds the counter it increments at the maximum  *)
(* fails with Overflow, changing nothing, rather than in any other way.    *)
C14_NoWrap ==
    [][/\ \A o \in Owners :
            /\ ExactCount(publisher[o].alerts_submitted,
                          publisher'[o].alerts_submitted)
            /\ ExactCount(publisher[o].alerts_accepted,
                          publisher'[o].alerts_accepted)
            /\ ExactCount(subscriber[o].alerts_received,
                          subscriber'[o].alerts_received)
            /\ publisher'[o].stake \in 0..U64_MAX
            /\ publisher'[o].total_earnings \in 0..U64_MAX
            /\ subscriber'[o].balance \in 0..U64_MAX
       /\ \A id \in AlertIds :
            ExactCount(alert[id].delivery_count, alert'[id].delivery_count)
       /\ ExactCount(alert_registry.total_alerts, alert_registry'.total_alerts)
       /\ ExactCount(registry.total_publishers, registry'.total_publishers)
       /\ ExactCount(config.total_subscribers, config'.total_subscribers)
       /\ ExactCount(config.total_alerts_delivered, config'.total_alerts_delivered)
       /\ registry'.total_payouts \in 0..U64_MAX
       /\ config'.total_revenue \in 0..U64_MAX
       /\ (/\ result'.op = "record_alert_submission"
           /\ publisher[result'.who].exists
           /\ publisher[result'.who].alerts_submitted = U64_MAX) =>
              (result'.err = "Overflow" /\ UNCHANGED pubVars)
       /\ result'.err = "ProgramFailedToComplete" =>
              (result'.op = "register_alert"
                   /\ AlertIdLen(result'.who) > MAX_SEED_LEN)
      ]_vars

(* C15: under a treasury_fee_bps above 10000, a charge_for_alert that      *)
(* passes the state checks and whose fee floor(price * bps / 10000) is     *)
(* above the price fails with Overflow and changes nothing.                *)
C15_FeeAbovePrice ==
    [][(/\ result'.op = "charge_for_alert"
        /\ config.initialized
        /\ subscriber[result'.who].exists
        /\ subscriber[result'.who].active
        /\ ReceiptInitConstraint(result'.who)
        /\ subscriber[result'.who].balance >= config.price_per_alert
        /\ config.treasury_fee_bps > BPS_DENOMINATOR
        /\ FloorShare(config.price_per_alert, config.treasury_fee_bps)
               > config.price_per_alert)
          => (result'.err = "Overflow" /\ UNCHANGED subVars)
      ]_vars

(* C16: delivery records are keyed by alert, subscriber and time, so a     *)
(* record_delivery of a registered alert and a charge_for_alert are        *)
(* refused for an occupied key only when a record of the same delivery     *)
(* event (same alert, same subscriber, same timestamp) exists already; in  *)
(* particular the same alert goes to two subscribers at one timestamp.     *)
C16_DeliveryKeys ==
    [][/\ (/\ result'.op = "record_delivery"
           /\ alert[result'.who].exists
           /\ result'.err # "Ok") =>
              \E d \in deliveries : /\ d.alert = result'.who
                                    /\ d.subscriber = result'.arg
                                    /\ d.timestamp = clock
       /\ (/\ result'.op = "charge_for_alert"
           /\ result'.err = "AccountAlreadyInUse") =>
              \E r \in receipts : /\ r.subscriber = result'.who
                                  /\ r.alert_hash = result'.arg
                                  /\ r.timestamp = clock
      ]_vars

(* C17: a charge_for_alert signed by anybody but the protocol's authority  *)
(* fails and changes nothing, so that a balance goes down only through a   *)
(* withdraw signed by its owner or a charge signed by the authority.       *)
C17_OnlyDistributor ==
    [][/\ (result'.op = "charge_for_alert" /\ result'.signer # "authority") =>
              (result'.err # "Ok" /\ UNCHANGED subVars)
       /\ \A o \in Owners :
              subscriber'[o].balance < subscriber[o].balance =>
                  \/ /\ result'.op = "withdraw"
                     /\ result'.who = o /\ result'.signer = o
                  \/ /\ result'.op = "charge_for_alert"
                     /\ result'.who = o /\ result'.signer = "authority"
      ]_vars

(* The Alert accounts there are: the ones of the ids followed here and the *)
(* ones registered under other ids.                                        *)
AlertRecords == Cardinality({id \in AlertIds : alert[id].exists}) + other_alerts

(* C18: register_alert under an id that is registered already fails on the *)
(* occupied account and leaves the first alert and total_alerts as they    *)
(* were; total_alerts is always the number of Alert accounts.              *)
C18_DuplicateAlert ==
    [][/\ (result'.op = "register_alert" /\ alert[result'.who].exists) =>
              (result'.err = "AccountAlreadyInUse" /\ UNCHANGED alertVars)
       /\ alert_registry.total_alerts = AlertRecords
       /\ alert_registry'.total_alerts = AlertRecords'
      ]_vars

(* C19: the content hash of an alert never changes once the alert is       *)
(* registered and its delivery_count never goes down; verify_alert changes *)
(* nothing and returns true exactly when the expected hash is the stored   *)
(* one.                                                                    *)
C19_AlertImmutable ==
    [][/\ \A id \in AlertIds :
              alert[id].exists =>
                  /\ alert'[id].exists
                  /\ alert'[id].content_hash = alert[id].content_hash
                  /\ alert'[id].delivery_count >= alert[id].delivery_count
       /\ result'.op = "verify_alert" =>
              /\ UNCHANGED <<pubVars, subVars, alertVars>>
              /\ alert[result'.who].exists =>
                    /\ result'.err = "Ok"
                    /\ result'.returned
                          = (alert[result'.who].content_hash = result'.arg)
      ]_vars

(* C19 witness: an alert that has been delivered, verified against a hash  *)
(* that is not the stored one.                                             *)
C19_Witness ==
    \E id \in AlertIds :
        /\ alert[id].exists
        /\ alert[id].delivery_count > 0
        /\ result.op = "verify_alert" /\ result.who = id
        /\ result.err = "Ok"
        /\ result.arg # alert[id].content_hash
        /\ ~result.returned

(* What C20 asks of one instruction on an existing subscriber. *)
C20_Frame ==
    LET o == result'.who
        op == result'.op
        amount == result'.amount
        s == subscriber[o]
    IN
    (o \in Owners /\ s.exists) =>
        /\ op \in {"deactivate", "reactivate"} =>
              /\ result'.err = "Ok"
              /\ subscriber' = [subscriber EXCEPT
                     ![o].active = (op = "reactivate")]
              /\ UNCHANGED <<config, subscriber_vault, user_tokens, receipts,
                             clock>>
        /\ op = "deposit" =>
              /\ result'.err = "Ok" <=>
                     /\ amount > 0
                     /\ amount <= user_tokens[o]
                     /\ s.balance + amount <= U64_MAX
              /\ subscriber'[o].active = s.active
              /\ result'.err = "Ok" =>
                     subscriber'[o].balance = s.balance + amount
        /\ op = "withdraw" =>
              /\ result'.err = "Ok" <=> amount <= s.balance
              /\ subscriber'[o].active = s.active
              /\ result'.err = "Ok" =>
                     subscriber'[o].balance = s.balance - amount
        /\ (op = "charge_for_alert" /\ config.initialized /\ ~s.active) =>
              /\ result'.err = "SubscriberInactive"
              /\ UNCHANGED subVars

(* C20: deactivate and reactivate succeed on every subscriber, whatever    *)
(* its state and balance, set active to false and to true, and change      *)
(* nothing else; deposit and withdraw succeed, fail and act the same on an *)
(* active and on an inactive subscriber; charge_for_alert on an inactive   *)
(* subscriber fails with SubscriberInactive and changes nothing.           *)
C20_ActivationFrame == [][C20_Frame]_vars

(* C21: on an existing subscriber a deposit of 0 fails with InvalidAmount  *)
(* and changes nothing; a successful deposit adds the amount to the        *)
(* balance and to the vault; and the withdraw of the same amount that      *)
(* follows a successful deposit succeeds and takes the amount from both,   *)
(* so balance and vault are back at their values before the deposit.       *)
C21_RoundTrip ==
    [][LET o == result'.who
           amount == result'.amount
       IN
       (o \in Owners /\ subscriber[o].exists) =>
           /\ (result'.op = "deposit" /\ amount = 0) =>
                  /\ result'.err = "InvalidAmount"
                  /\ UNCHANGED subVars
           /\ (result'.op = "deposit" /\ result'.err = "Ok") =>
                  /\ subscriber'[o].balance = subscriber[o].balance + amount
                  /\ subscriber_vault'[o] = subscriber_vault[o] + amount
           /\ (/\ result'.op = "withdraw"
               /\ result.op = "deposit" /\ result.err = "Ok"
               /\ result.who = o /\ result.amount = amount) =>
                  /\ result'.err = "Ok"
                  /\ subscriber'[o].balance = subscriber[o].balance - amount
                  /\ subscriber_vault'[o] = subscriber_vault[o] - amount
                  /\ user_tokens'[o] = user_tokens[o] + amount
      ]_vars

(* C21 witness: a subscriber that held 100, deposited 100 more and has     *)
(* just withdrawn them: the balance and the vault are at 100 again.        *)
C21_Witness ==
    \E o \in Owners :
        /\ result.op = "withdraw" /\ result.who = o
        /\ result.err = "Ok" /\ result.amount = 100
        /\ account[o].deposits = 2 /\ account[o].deposited = 200
        /\ account[o].withdrawals = 1 /\ account[o].charges = 0
        /\ subscriber[o].balance = 100
        /\ subscriber_vault[o] = 100

(* The sum of f over the owners. *)
RECURSIVE SumOver(_, _)
SumOver(f, S) ==
    IF S = {} THEN 0
    ELSE LET o == CHOOSE x \in S : TRUE IN f[o] + SumOver(f, S \ {o})

(* Every publisher's recorded stake is what its own vault holds, and the   *)
(* treasury holds what the slashes took.                                   *)
StakeCustody ==
    /\ \A o \in Owners : publisher[o].stake = stake_vault[o]
    /\ treasury = SumOver([o \in Owners |-> slash_history[o].total], Owners)

VaultCovers ==
    \A o \in Owners :
        subscriber_vault[o]
            = subscriber[o].balance + config.price_per_alert * account[o].charges

(* C23: after deposit, withdraw and charge_for_alert a subscriber's vault  *)
(* holds its balance plus price_per_alert times the number of its          *)
(* successful charges; charge_for_alert changes no vault and no wallet;    *)
(* and a withdraw of an amount within the balance goes through, the vault  *)
(* never lacking the tokens.                                               *)
C23_VaultCovers ==
    [][/\ VaultCovers
       /\ VaultCovers'
       /\ result'.op = "charge_for_alert" =>
              UNCHANGED <<subscriber_vault, user_tokens>>
       /\ (/\ result'.op = "withdraw"
           /\ result'.who \in Owners
           /\ subscriber[result'.who].exists
           /\ result'.amount <= subscriber[result'.who].balance) =>
              /\ result'.amount <= subscriber_vault[result'.who]
              /\ result'.err = "Ok"
      ]_vars

(* C23 witness: a subscriber that has been charged withdraws from what is  *)
(* left: the vault keeps more than the balance.                            *)
C23_Witness ==
    \E o \in Owners :
        /\ result.op = "withdraw" /\ result.who = o
        /\ result.err = "Ok" /\ result.amount > 0
        /\ account[o].charges > 0
        /\ config.price_per_alert > 0
        /\ subscriber_vault[o] > subscriber[o].balance

(* The DeliveryReceipt accounts written so far: one for every successful   *)
(* charge of every subscriber.                                             *)
ReceiptRecords == SumOver([o \in Owners |-> account[o].charges], Owners)

TotalEarnings == SumOver([o \in Owners |-> publisher[o].total_earnings], Owners)

C26_SubmissionFrame ==
    [][/\ (/\ result'.op = "record_alert_submission"
           /\ publisher[result'.who].exists) =>
              LET p == publisher[result'.who]
                  q == publisher'[result'.who]
              IN
              /\ result'.err = "Ok"
              /\ q = [p EXCEPT !.alerts_submitted = q.alerts_submitted,
                               !.alerts_accepted = q.alerts_accepted,
                               !.reputation_score = q.reputation_score]
              /\ \A o \in Owners \ {result'.who} : publisher'[o] = publisher[o]
              /\ UNCHANGED <<registry, stake_vault, owner_tokens, revenue_pool,
                             treasury>>
       /\ \A o \in Owners :
              /\ publisher[o].alerts_accepted <= publisher[o].alerts_submitted
              /\ publisher'[o].alerts_accepted <= publisher'[o].alerts_submitted
      ]_vars

(* C27: there is at most one receipt for a subscriber and a timestamp; a   *)
(* charge_for_alert on a subscriber that has a receipt for the current     *)
(* timestamp, whatever the alert hash, fails on the occupied receipt       *)
(* account and leaves balances, counters, totals and receipts unchanged.   *)
C27_OneChargePerTimestamp ==
    [][/\ \A r1, r2 \in receipts' :
              (r1.subscriber = r2.subscriber /\ r1.timestamp = r2.timestamp)
                  => r1 = r2
       /\ (/\ result'.op = "charge_for_alert"
           /\ \E r \in receipts : /\ r.subscriber = result'.who
                                  /\ r.timestamp = clock) =>
              /\ result'.err = "AccountAlreadyInUse"
              /\ UNCHANGED subVars
      ]_vars

(* C27 witness: a subscriber that can pay and was charged for one alert at *)
(* this timestamp is refused the charge for another alert.                 *)
C27_Witness ==
    \E o \in Owners, r \in receipts :
        /\ r.subscriber = o /\ r.timestamp = clock
        /\ result.op = "charge_for_alert" /\ result.who = o
        /\ result.err = "AccountAlreadyInUse"
        /\ result.arg # r.alert_hash
        /\ subscriber[o].active
        /\ subscriber[o].balance >= config.price_per_alert

=============================================================================
